---- MODULE Spec2Model ----
(***************************************************************************)
(* A model of dataset_xschema: XSchemaTable (table.py) and parse_record    *)
(* (util.py).  The storage collaborator (dataset.table.Table) is modelled  *)
(* as an ordered list of records; ConstraintMapping (constraint.py) is     *)
(* modelled from its description, its source not being at hand.            *)
(*                                                                         *)
(* Python objects are records [tp, val]: tp is the object's type tag and   *)
(* val its text as a sequence of one-character strings; a type object is   *)
(* [tp |-> "type", val |-> <<name>>].  A record (dict) is a function from  *)
(* a subset of Cols to objects, iterated in the order ColOrder.            *)
(***************************************************************************)
EXTENDS Integers, Sequences, FiniteSets, TLC

\* ------------------------------------------------------------------ bounds
\* Most records storage may hold.
MaxRows == 2
\* Most rows of one bulk insert.
MaxBatch == 2

\* ----------------------------------------------------------------- objects
Cols == {"id", "email"}
ColOrder == <<"id", "email">>

Digits == {"0", "1", "2", "5"}
Whitespace == {" "}

Str(s) == [tp |-> "str", val |-> s]
IntObj(s) == [tp |-> "int", val |-> s]
FloatObj(s) == [tp |-> "float", val |-> s]
DateTimeObj(s) == [tp |-> "datetime", val |-> s]
DateObj(s) == [tp |-> "date", val |-> s]
NoneObj == [tp |-> "NoneType", val |-> <<>>]
TypeObj(t) == [tp |-> "type", val |-> <<t>>]

\* ---------------------------------------------------------- str operations
RECURSIVE LStrip(_)
LStrip(s) ==
    IF s # <<>> /\ Head(s) \in Whitespace THEN LStrip(Tail(s)) ELSE s

RECURSIVE RStrip(_)
RStrip(s) ==
    IF s # <<>> /\ s[Len(s)] \in Whitespace
    THEN RStrip(SubSeq(s, 1, Len(s) - 1))
    ELSE s

\* str.strip()
Strip(s) == RStrip(LStrip(s))

\* unicodedata.normalize("NFKD", c) of one character: the fullwidth digit
\* one (U+FF11, written "FW1") decomposes to "1"; the other characters of
\* the model are their own decomposition.
NfkdChar(c) == IF c = "FW1" THEN "1" ELSE c

normalize_chars(s) == [i \in 1..Len(s) |-> NfkdChar(s[i])]

\* str.isdigit()
IsDigit(s) == s # <<>> /\ \A i \in 1..Len(s) : s[i] \in Digits \cup {"FW1"}

\* str.replace('.', '', 1)
RECURSIVE ReplaceFirstDot(_)
ReplaceFirstDot(s) ==
    IF s = <<>> THEN <<>>
    ELSE IF Head(s) = "." THEN Tail(s)
    ELSE <<Head(s)>> \o ReplaceFirstDot(Tail(s))

HasDot(s) == \E i \in 1..Len(s) : s[i] = "."

RECURSIVE StripLeadingZeros(_)
StripLeadingZeros(s) ==
    IF Len(s) > 1 /\ Head(s) = "0" THEN StripLeadingZeros(Tail(s)) ELSE s

RECURSIVE StripTrailingZeros(_)
StripTrailingZeros(s) ==
    IF s # <<>> /\ s[Len(s)] = "0"
    THEN StripTrailingZeros(SubSeq(s, 1, Len(s) - 1))
    ELSE s

\* int(v) of a digit string: the number, written without leading zeros.
ParseInt(s) == IntObj(StripLeadingZeros(s))

DotIndex(s) == CHOOSE i \in 1..Len(s) : s[i] = "." /\ \A j \in 1..(i - 1) : s[j] # "."

\* float(v) of digits '.' digits: the number, written with its integer part
\* without leading zeros and its fraction without trailing zeros.
ParseFloat(s) ==
    LET i == DotIndex(s)
        ip == SubSeq(s, 1, i - 1)
        fp == StripTrailingZeros(SubSeq(s, i + 1, Len(s)))
    IN FloatObj(StripLeadingZeros(IF ip = <<>> THEN <<"0">> ELSE ip)
                \o <<".">> \o (IF fp = <<>> THEN <<"0">> ELSE fp))

\* dateutil.parser.parse on the texts of the model: a text DDDD-DD-DD is a
\* date (midnight of that day), every other text of the model raises
\* ValueError.
IsDateText(s) ==
    /\ Len(s) = 10
    /\ s[5] = "-" /\ s[8] = "-"
    /\ \A i \in {1, 2, 3, 4, 6, 7, 9, 10} : s[i] \in Digits

Midnight == <<"T", "0", "0", ":", "0", "0", ":", "0", "0">>

DateutilParse(s) == DateTimeObj(s \o Midnight)

\* The environment variable TINYDB_DATETIME, at its default.
TINYDB_DATETIME == TRUE

Skip == [tp |-> "skip", val |-> <<>>]

\* parse_record's treatment of one value, up to the yield: the object the
\* value is normalized to, or Skip when the loop continues without a yield.
ParseValue(v) ==
    LET w == IF TINYDB_DATETIME /\ v.tp = "str"
             THEN LET s == normalize_chars(Strip(v.val))
                  IN IF IsDigit(s) THEN ParseInt(s)
                     ELSE IF HasDot(s) /\ IsDigit(ReplaceFirstDot(s))
                          THEN ParseFloat(s)
                     ELSE IF s \in {<<>>, <<"-">>} THEN Skip
                     ELSE IF IsDateText(s) THEN DateutilParse(s)
                     ELSE Str(s)
             ELSE v
    IN IF w.tp \in {"date", "datetime"}
       THEN DateTimeObj(SubSeq(w.val, 1, 10) \o Midnight)
       ELSE w

\* parse_record._yield_switch
yield_switch(x, yield_) ==
    IF yield_ = "type" THEN TypeObj(x.tp)
    ELSE IF x.tp \in {"date", "datetime"} THEN Str(x.val)
    ELSE x

\* The texts the model's records hold.
Text1 == <<"1">>
Text2 == <<"2">>
TextY == <<"y">>
TextFloat == <<"1", ".", "5">>
TextHyphen == <<"-">>
TextEmpty == << >>
TextDate == <<"2", "0", "2", "0", "-", "0", "1", "-", "0", "2">>
TextPadded == <<" ", "0", "1">>
TextFullwidth == <<"FW1">>

RawUniverse ==
    {Str(t) : t \in {Text1, Text2, TextY, TextFloat, TextHyphen, TextEmpty,
                     TextDate, TextPadded, TextFullwidth}}

\* ParseValue on the values of the model, computed once.
Parsed == [v \in RawUniverse |-> ParseValue(v)]

\* parse_record: the (key, value) pairs it yields, in the record's order.
parse_record(record, yield_) ==
    LET ks == SelectSeq(ColOrder,
                        LAMBDA k : k \in DOMAIN record
                                   /\ Parsed[record[k]] # Skip)
    IN [i \in 1..Len(ks) |->
            <<ks[i], yield_switch(Parsed[record[ks[i]]], yield_)>>]

\* dict(parse_record(record, yield_))
ParsedDict(record, yield_) ==
    LET items == parse_record(record, yield_)
    IN [k \in {items[i][1] : i \in 1..Len(items)} |->
            (CHOOSE p \in {items[i] : i \in 1..Len(items)} : p[1] = k)[2]]

\* ------------------------------------------------------- ConstraintMapping
\* The mapping's three fields are the variables type_, not_null and
\* preexisting.  A schema dictionary maps columns to constraints
\* [type_, not_null, unique], type_ being a type object or None.
Constraint(t, n, u) == [type_ |-> t, not_null |-> n, unique |-> u]

\* ConstraintMapping(): the empty mapping.
EmptyMapping == [type_ |-> << >>, not_null |-> {}, preexisting |-> << >>]

\* A declaration is a constraint or a bare type, which declares the type
\* alone.
Declared(c) == IF "tp" \in DOMAIN c THEN Constraint(c, FALSE, FALSE) ELSE c

\* ConstraintMapping.update(schema_dict): the declarations are merged into
\* the mapping; a column newly declared unique starts with an empty seen-set
\* and a column already tracked keeps its seen-set.
MappingUpdate(m, schema_dict) ==
    LET D == DOMAIN schema_dict
        T == {k \in D : Declared(schema_dict[k]).type_ # NoneObj}
        U == {k \in D : Declared(schema_dict[k]).unique}
    IN [type_ |-> [k \in DOMAIN m.type_ \cup T |->
                        IF k \in T THEN Declared(schema_dict[k]).type_
                        ELSE m.type_[k]],
        not_null |-> m.not_null
                     \cup {k \in D : Declared(schema_dict[k]).not_null},
        preexisting |-> [k \in DOMAIN m.preexisting \cup U |->
                        IF k \in DOMAIN m.preexisting THEN m.preexisting[k]
                        ELSE {}]]

\* The type entry of a column in a copy of the mapping or in a snapshot:
\* a bare tag, a list of tags, or none.
Tag(t) == [form |-> "tag", types |-> <<t>>]

TagList(ts) == [form |-> "list", types |-> ts]

NoTag == [form |-> "none", types |-> << >>]

\* ConstraintMapping.view(): per column of the mapping, its type entry and
\* whether it is required and unique.
View(types, required, pre) ==
    [k \in DOMAIN types \cup required \cup DOMAIN pre |->
        [type_ |-> IF k \in DOMAIN types THEN types[k] ELSE NoTag,
         not_null |-> k \in required,
         unique |-> k \in DOMAIN pre]]

\* ------------------------------------------------------------ XSchemaTable
VARIABLES
    storage,      \* the records the storage collaborator holds, in scan order
    type_,        \* constraint_mapping.type_
    not_null,     \* constraint_mapping.not_null
    preexisting,  \* constraint_mapping.preexisting
    last          \* the latest call: operation, arguments and outcome

vars == <<storage, type_, not_null, preexisting, last>>

Mapping == [type_ |-> type_, not_null |-> not_null, preexisting |-> preexisting]

\* The outcome of a call.  result: "ok" or the exception that left the
\* call; reached: the storage collaborator's write was called; col, obj:
\* what the exception names; missing: the columns a NotNullException
\* names; filter, matched: a delete's filter and how many records it found;
\* calls: the calls a delete made, in order; added: what a write whose
\* storage call raised had added to the seen-sets; returned: the value a
\* get_schema or a _sanitize_multiple returned; repeated: a get_schema with
\* refresh came right after another one.
Outcome(op, result, reached, col, obj, missing) ==
    [op |-> op, result |-> result, reached |-> reached, col |-> col,
     obj |-> obj, missing |-> missing, filter |-> << >>, matched |-> 0,
     calls |-> << >>, added |-> {}, returned |-> NoneObj,
     repeated |-> FALSE]

\* _update_uniqueness from the i-th pair on: the seen-sets as the loop
\* leaves them, and whether (and for what) NotUniqueException was raised.
RECURSIVE UpdateUniquenessFrom(_, _, _)
UpdateUniquenessFrom(items, i, pre) ==
    IF i > Len(items)
    THEN [pre |-> pre, raised |-> FALSE, col |-> "", obj |-> NoneObj]
    ELSE LET k == items[i][1]
             v == items[i][2]
         IN IF k \in DOMAIN pre
            THEN IF v \in pre[k]
                 THEN [pre |-> pre, raised |-> TRUE, col |-> k, obj |-> v]
                 ELSE UpdateUniquenessFrom(items, i + 1,
                                           [pre EXCEPT ![k] = @ \cup {v}])
            ELSE UpdateUniquenessFrom(items, i + 1, pre)

\* XSchemaTable._update_uniqueness(record_dict)
update_uniqueness(record_dict, pre) ==
    UpdateUniquenessFrom(parse_record(record_dict, "type"), 1, pre)

RECURSIVE RemoveUniquenessFrom(_, _, _)
RemoveUniquenessFrom(items, i, pre) ==
    IF i > Len(items) THEN pre
    ELSE LET k == items[i][1]
             v == items[i][2]
         IN RemoveUniquenessFrom(items, i + 1,
                IF k \in DOMAIN pre /\ v \in pre[k]
                THEN [pre EXCEPT ![k] = @ \ {v}]
                ELSE pre)

\* XSchemaTable._remove_uniqueness(record_dict)
remove_uniqueness(record_dict, pre) ==
    RemoveUniquenessFrom(parse_record(record_dict, "type"), 1, pre)

\* The type check without the widening rule: every type that is not the
\* expected one raises.
RECURSIVE TypeCheckFromNoWidening(_, _, _)
TypeCheckFromNoWidening(items, i, types) ==
    IF i > Len(items)
    THEN [raised |-> FALSE, col |-> "", obj |-> NoneObj]
    ELSE LET k == items[i][1]
             v == items[i][2]
         IN IF k \in DOMAIN types /\ v # types[k]
            THEN [raised |-> TRUE, col |-> k, obj |-> v]
            ELSE TypeCheckFromNoWidening(items, i + 1, types)

\* The type check of refresh on the pairs of one record, from the i-th on:
\* the first pair whose type is not the expected one and is not widened.
RECURSIVE TypeCheckFrom(_, _, _)
TypeCheckFrom(items, i, types) ==
    IF i > Len(items)
    THEN [raised |-> FALSE, col |-> "", obj |-> NoneObj]
    ELSE LET k == items[i][1]
             v == items[i][2]
         IN IF k \in DOMAIN types /\ v # types[k]
               /\ ~(types[k] = TypeObj("str")
                    /\ v \in {TypeObj("int"), TypeObj("float")})
            THEN [raised |-> TRUE, col |-> k, obj |-> v]
            ELSE TypeCheckFrom(items, i + 1, types)

\* refresh naming one missing column only.
RECURSIVE RefreshFromOneMissing(_, _, _, _)
RefreshFromOneMissing(records, i, types, required) ==
    IF i > Len(records)
    THEN [result |-> "ok", col |-> "", obj |-> NoneObj, missing |-> {},
          index |-> 0]
    ELSE LET t == TypeCheckFrom(parse_record(records[i], "type"), 1, types)
             is_null == required \ DOMAIN ParsedDict(records[i], "record")
         IN IF t.raised
            THEN [result |-> "NonUniformType", col |-> t.col, obj |-> t.obj,
                  missing |-> {}, index |-> i]
            ELSE IF is_null # {}
            THEN [result |-> "NotNull", col |-> "", obj |-> NoneObj,
                  missing |-> {CHOOSE c \in is_null : TRUE}, index |-> i]
            ELSE RefreshFromOneMissing(records, i + 1, types, required)

\* XSchemaTable.refresh(output=False) over the records from the i-th on:
\* the exception the scan raises, if any.
RECURSIVE RefreshFrom(_, _, _, _)
RefreshFrom(records, i, types, required) ==
    IF i > Len(records)
    THEN [result |-> "ok", col |-> "", obj |-> NoneObj, missing |-> {},
          index |-> 0]
    ELSE LET t == TypeCheckFrom(parse_record(records[i], "type"), 1, types)
             is_null == required \ DOMAIN ParsedDict(records[i], "record")
         IN IF t.raised
            THEN [result |-> "NonUniformType", col |-> t.col, obj |-> t.obj,
                  missing |-> {}, index |-> i]
            ELSE IF is_null # {}
            THEN [result |-> "NotNull", col |-> "", obj |-> NoneObj,
                  missing |-> is_null, index |-> i]
            ELSE RefreshFrom(records, i + 1, types, required)

refresh(records, types, required) == RefreshFrom(records, 1, types, required)

\* deepcopy(self.constraint_mapping).type_
CopyTypes(types) == [k \in DOMAIN types |-> Tag(types[k])]

\* The type the scan goes on with: the observed one, or str for an int or a
\* float under an expected str.
Widen(v, k, types) ==
    IF k \in DOMAIN types /\ types[k] = TypeObj("str")
       /\ v \in {TypeObj("int"), TypeObj("float")}
    THEN TypeObj("str")
    ELSE v

\* The accumulation of refresh(output=True) over the pairs of one record
\* that passed the type check: v is appended to the column's list unless it
\* is in it, a bare tag being made a list first.
RECURSIVE AccumulateFrom(_, _, _, _)
AccumulateFrom(items, i, types, out) ==
    IF i > Len(items) THEN out
    ELSE LET k == items[i][1]
             v == Widen(items[i][2], k, types)
             type_list == IF k \in DOMAIN out THEN out[k].types ELSE << >>
             appended == IF \E j \in 1..Len(type_list) : type_list[j] = v
                         THEN type_list
                         ELSE Append(type_list, v)
         IN AccumulateFrom(items, i + 1, types,
                [c \in DOMAIN out \cup {k} |->
                    IF c = k THEN TagList(appended) ELSE out[c]])

\* refresh(output=True) over the records from the i-th on: the exception
\* the scan raises, if any, and the copy's type entries as the scan left
\* them.  For the i-th record, t is the outcome of its type check, is_null
\* the required columns it lacks and seen the entries after it.
RECURSIVE RefreshReportFrom(_, _, _, _, _)
RECURSIVE RefreshReportNext(_, _, _, _, _, _, _, _)
RefreshReportNext(records, i, types, required, out, t, is_null, seen) ==
    IF t.raised
    THEN [result |-> "NonUniformType", col |-> t.col, obj |-> t.obj,
          missing |-> {}, index |-> i, out |-> out]
    ELSE IF is_null # {}
    THEN [result |-> "NotNull", col |-> "", obj |-> NoneObj,
          missing |-> is_null, index |-> i, out |-> seen]
    ELSE RefreshReportFrom(records, i + 1, types, required, seen)

RefreshReportFrom(records, i, types, required, out) ==
    IF i > Len(records)
    THEN [result |-> "ok", col |-> "", obj |-> NoneObj, missing |-> {},
          index |-> 0, out |-> out]
    ELSE RefreshReportNext(records, i, types, required, out,
             TypeCheckFrom(parse_record(records[i], "type"), 1, types),
             required \ DOMAIN ParsedDict(records[i], "record"),
             AccumulateFrom(parse_record(records[i], "type"), 1, types, out))

\* The end of refresh(output=True): a list of one tag becomes that tag.
Collapse(out) ==
    [k \in DOMAIN out |->
        IF out[k].form = "list" /\ Len(out[k].types) = 1
        THEN Tag(out[k].types[1])
        ELSE out[k]]

Collapsed(r) == [r EXCEPT !.out = Collapse(r.out)]

\* XSchemaTable.refresh(output=True)
refresh_output(records, types, required) ==
    Collapsed(RefreshReportFrom(records, 1, types, required,
                                CopyTypes(types)))

\* --------------------------------------------------- storage collaborator
\* dataset's Table, as far as the wrapper uses it: records are kept as
\* given, filters and keys compare stored values for equality, and no
\* method of the collaborator calls back into the wrapper.
Matches(record, filter) ==
    \A k \in DOMAIN filter : k \in DOMAIN record /\ record[k] = filter[k]

\* Table.find(**filters)
find(records, filter) == SelectSeq(records, LAMBDA r : Matches(r, filter))

KeyFilter(row, keys) == [k \in keys |-> row[k]]

Merge(record, row) ==
    [k \in DOMAIN record \cup DOMAIN row |->
        IF k \in DOMAIN row THEN row[k] ELSE record[k]]

\* Table.insert(row)
StorageInsert(records, row) == Append(records, row)

\* Table.insert_many(rows)
StorageInsertMany(records, rows) == records \o rows

\* Table.update(row, keys)
StorageUpdate(records, row, keys) ==
    [i \in 1..Len(records) |->
        IF Matches(records[i], KeyFilter(row, keys))
        THEN Merge(records[i], row)
        ELSE records[i]]

\* Table.insert_ignore(row, keys)
StorageInsertIgnore(records, row, keys) ==
    IF find(records, KeyFilter(row, keys)) = <<>>
    THEN Append(records, row)
    ELSE records

\* Table.upsert(row, keys)
StorageUpsert(records, row, keys) ==
    IF find(records, KeyFilter(row, keys)) = <<>>
    THEN Append(records, row)
    ELSE StorageUpdate(records, row, keys)

\* Table.delete(**filters)
StorageDelete(records, filter) ==
    SelectSeq(records, LAMBDA r : ~Matches(r, filter))

\* ------------------------------------------------------------------ inputs
\* The records over the columns of D whose value for column k is in V[k].
RecordsOver(V) == UNION {{r \in [D -> UNION {V[k] : k \in D}] :
                            \A k \in D : r[k] \in V[k]} : D \in SUBSET Cols}

\* The write paths: an integer and a string for id, two integers for email.
WriteValues ==
    [id |-> {Str(Text1), Str(TextY)},
     email |-> {Str(Text1), Str(Text2)}]

WriteRows == RecordsOver(WriteValues) \ {<< >>}

KeyedRows == {r \in WriteRows : "id" \in DOMAIN r}

WriteBatches == UNION {[1..n -> KeyedRows] : n \in 1..MaxBatch}

WriteFilters == {f \in RecordsOver(WriteValues) : Cardinality(DOMAIN f) <= 1}

Unique == Constraint(NoneObj, FALSE, TRUE)

UniqueDicts == [id : {Unique}] \cup [email : {Unique}]
               \cup [id : {Unique}, email : {Unique}]

\* The validation paths: an integer, a float, a string and an empty text
\* for id; a string and a lone hyphen for email.
ScanValues ==
    [id |-> {Str(Text1), Str(TextFloat), Str(TextY), Str(TextEmpty)},
     email |-> {Str(TextY), Str(TextHyphen)}]

ScanRows == RecordsOver(ScanValues) \ {<< >>}

ScanFilters == {f \in RecordsOver(ScanValues) : Cardinality(DOMAIN f) <= 1}

\* Declarations of a type and of not-null: any of int, float and str (or
\* none) for id, no type for email.
TypedDicts ==
    LET ids == {Constraint(t, n, FALSE) :
                    t \in {NoneObj, TypeObj("int"), TypeObj("float"),
                           TypeObj("str")},
                    n \in BOOLEAN}
        emails == {Constraint(NoneObj, n, FALSE) : n \in BOOLEAN}
    IN [id : ids] \cup [id : ids, email : emails]

\* ----------------------------------------------------------------- actions
\* The loop of delete over the records found, from the i-th on.
RECURSIVE RemoveUniquenessMany(_, _, _)
RemoveUniquenessMany(records, i, pre) ==
    IF i > Len(records) THEN pre
    ELSE RemoveUniquenessMany(records, i + 1,
                              remove_uniqueness(records[i], pre))

\* What a call added to the seen-sets: (column, entry) pairs.
Added(before, after) ==
    UNION {{<<c, x>> : x \in after[c] \ before[c]} : c \in DOMAIN after}

\* The body shared by insert, insert_ignore, update and upsert:
\* _update_uniqueness(row), then the collaborator's method, which either
\* raises (fails) or leaves the storage as stored.
WriteOne(op, row, fails, stored) ==
    LET u == update_uniqueness(row, preexisting)
    IN /\ preexisting' = u.pre
       /\ IF u.raised
          THEN /\ storage' = storage
               /\ last' = Outcome(op, "NotUnique", FALSE,
                                  u.col, u.obj, {})
          ELSE IF fails
          THEN /\ storage' = storage
               /\ last' = [Outcome(op, "StorageError", TRUE,
                                   "", NoneObj, {})
                           EXCEPT !.added = Added(preexisting, u.pre)]
          ELSE /\ Len(stored) <= MaxRows
               /\ storage' = stored
               /\ last' = Outcome(op, "ok", TRUE,
                                  "", NoneObj, {})
       /\ UNCHANGED <<type_, not_null>>

\* XSchemaTable.insert(row)
Insert(row, fails) ==
    WriteOne("insert", row, fails, StorageInsert(storage, row))

\* XSchemaTable.insert_ignore(row, keys)
InsertIgnore(row, keys, fails) ==
    WriteOne("insert_ignore", row, fails,
             StorageInsertIgnore(storage, row, keys))

\* update checking the row against the seen-sets without the entries of the
\* records its keys select: a record may be rewritten with its own values.
UpdateExcludingSelf(row, keys, fails) ==
    LET selected == find(storage, KeyFilter(row, keys))
        others == RemoveUniquenessMany(selected, 1, preexisting)
        u == update_uniqueness(row, others)
        stored == StorageUpdate(storage, row, keys)
    IN /\ preexisting' = u.pre
       /\ IF u.raised
          THEN /\ storage' = storage
               /\ last' = Outcome("update", "NotUnique", FALSE,
                                  u.col, u.obj, {})
          ELSE IF fails
          THEN /\ storage' = storage
               /\ last' = Outcome("update", "StorageError", TRUE,
                                  "", NoneObj, {})
          ELSE /\ Len(stored) <= MaxRows
               /\ storage' = stored
               /\ last' = Outcome("update", "ok", TRUE, "", NoneObj, {})
       /\ UNCHANGED <<type_, not_null>>

\* XSchemaTable.update(row, keys)
Update(row, keys, fails) ==
    WriteOne("update", row, fails, StorageUpdate(storage, row, keys))

\* XSchemaTable.upsert(row, keys)
Upsert(row, keys, fails) ==
    WriteOne("upsert", row, fails, StorageUpsert(storage, row, keys))

\* insert_many checking every row against the seen-sets as they were when
\* the call began: a duplicate within the batch goes unnoticed.
RECURSIVE UpdateUniquenessManyUnthreaded(_, _, _)
UpdateUniquenessManyUnthreaded(rows, i, pre) ==
    IF i > Len(rows)
    THEN [pre |-> pre, raised |-> FALSE, col |-> "", obj |-> NoneObj]
    ELSE LET u == update_uniqueness(rows[i], pre)
         IN IF u.raised THEN u
            ELSE LET rest == UpdateUniquenessManyUnthreaded(rows, i + 1, pre)
                 IN [rest EXCEPT !.pre = [k \in DOMAIN pre |->
                                            u.pre[k] \cup rest.pre[k]]]

\* The loop of insert_many over the rows from the i-th on.
RECURSIVE UpdateUniquenessMany(_, _, _)
UpdateUniquenessMany(rows, i, pre) ==
    IF i > Len(rows)
    THEN [pre |-> pre, raised |-> FALSE, col |-> "", obj |-> NoneObj]
    ELSE LET u == update_uniqueness(rows[i], pre)
         IN IF u.raised THEN u
            ELSE UpdateUniquenessMany(rows, i + 1, u.pre)

\* XSchemaTable.insert_many(rows)
InsertMany(rows, fails) ==
    LET u == UpdateUniquenessMany(rows, 1, preexisting)
    IN /\ preexisting' = u.pre
       /\ IF u.raised
          THEN /\ storage' = storage
               /\ last' = Outcome("insert_many", "NotUnique",
                                  FALSE, u.col, u.obj, {})
          ELSE IF fails
          THEN /\ storage' = storage
               /\ last' = [Outcome("insert_many", "StorageError",
                                   TRUE, "", NoneObj, {})
                           EXCEPT !.added = Added(preexisting, u.pre)]
          ELSE /\ Len(storage) + Len(rows) <= MaxRows
               /\ storage' = StorageInsertMany(storage, rows)
               /\ last' = Outcome("insert_many", "ok", TRUE,
                                  "", NoneObj, {})
       /\ UNCHANGED <<type_, not_null>>

\* The calls of a delete that found n records, in the order of the code.
DeleteCalls(n) ==
    <<"find">> \o [i \in 1..n |-> "_remove_uniqueness"]
               \o <<"Table.delete", "refresh">>

\* delete refreshing after the collaborator's delete returned, without the
\* finally clause: a storage error leaves the call before the refresh.
DeleteWithoutFinally(filter, fails) ==
    LET matched == find(storage, filter)
        stored == IF fails THEN storage ELSE StorageDelete(storage, filter)
        r == refresh(stored, type_, not_null)
    IN /\ preexisting' = RemoveUniquenessMany(matched, 1, preexisting)
       /\ storage' = stored
       /\ last' = IF fails
                  THEN [Outcome("delete", "StorageError", TRUE,
                                "", NoneObj, {})
                        EXCEPT !.filter = filter, !.matched = Len(matched),
                               !.calls = SubSeq(DeleteCalls(Len(matched)), 1,
                                                Len(matched) + 2)]
                  ELSE [Outcome("delete", r.result, TRUE,
                                r.col, r.obj, r.missing)
                        EXCEPT !.filter = filter, !.matched = Len(matched),
                               !.calls = DeleteCalls(Len(matched))]
       /\ UNCHANGED <<type_, not_null>>

\* XSchemaTable.delete(**filters): the seen-sets are vacated for the
\* matching records, the collaborator deletes (or raises: fails), and the
\* finally clause refreshes; an exception of the refresh is the one that
\* leaves the call.
Delete(filter, fails) ==
    LET matched == find(storage, filter)
        stored == IF fails THEN storage ELSE StorageDelete(storage, filter)
        r == refresh(stored, type_, not_null)
    IN /\ preexisting' = RemoveUniquenessMany(matched, 1, preexisting)
       /\ storage' = stored
       /\ last' = [Outcome("delete",
                                  IF r.result # "ok" THEN r.result
                                  ELSE IF fails THEN "StorageError" ELSE "ok",
                                  TRUE, r.col, r.obj, r.missing)
                          EXCEPT !.filter = filter, !.matched = Len(matched),
                                 !.calls = DeleteCalls(Len(matched))]
       /\ UNCHANGED <<type_, not_null>>

\* The type entries a refresh(output=True) that worked on the mapping itself
\* instead of a copy would leave in it.
Uncopied(out) ==
    [k \in DOMAIN out |->
        IF out[k].form = "tag" THEN out[k].types[1] ELSE out[k]]

\* refresh recording the types it observed in the table's own mapping.
RefreshNoCopyOutcome(r) ==
    last' = Outcome("refresh", r.result, FALSE, r.col, r.obj, r.missing)

RefreshNoCopy ==
    /\ RefreshNoCopyOutcome(refresh(storage, type_, not_null))
    /\ type_' = Uncopied(refresh_output(storage, type_, not_null).out)
    /\ UNCHANGED <<storage, not_null, preexisting>>

\* XSchemaTable.refresh(output=False)
Refresh ==
    LET r == refresh(storage, type_, not_null)
    IN /\ last' = Outcome("refresh", r.result, FALSE,
                          r.col, r.obj, r.missing)
       /\ UNCHANGED <<storage, type_, not_null, preexisting>>

\* What a get_schema with refresh ends with, r being the outcome of its
\* refresh(output=True).
ReportOutcome(r) ==
    last' = [Outcome("get_schema(refresh=True)", r.result, FALSE,
                     r.col, r.obj, r.missing)
             EXCEPT !.returned = IF r.result = "ok"
                                 THEN View(r.out, not_null, preexisting)
                                 ELSE NoneObj,
                    !.repeated = last.op = "get_schema(refresh=True)"]

NoCopyOutcome(r) ==
    /\ ReportOutcome(r)
    /\ type_' = Uncopied(r.out)

\* get_schema whose refresh accumulates into the table's own mapping.
GetSchemaNoCopy(refresh_) ==
    IF refresh_
    THEN /\ NoCopyOutcome(refresh_output(storage, type_, not_null))
         /\ UNCHANGED <<storage, not_null, preexisting>>
    ELSE /\ last' = [Outcome("get_schema(refresh=False)", "ok", FALSE,
                             "", NoneObj, {})
                     EXCEPT !.returned = View(CopyTypes(type_), not_null,
                                              preexisting)]
         /\ UNCHANGED <<storage, type_, not_null, preexisting>>

\* XSchemaTable.get_schema(refresh): with refresh, the snapshot of the copy
\* a refresh(output=True) accumulated into (the schema property); without,
\* the snapshot of the mapping.
GetSchema(refresh_) ==
    IF refresh_
    THEN /\ ReportOutcome(refresh_output(storage, type_, not_null))
         /\ UNCHANGED <<storage, type_, not_null, preexisting>>
    ELSE /\ last' = [Outcome("get_schema(refresh=False)", "ok", FALSE,
                             "", NoneObj, {})
                     EXCEPT !.returned = View(CopyTypes(type_), not_null,
                                              preexisting)]
         /\ UNCHANGED <<storage, type_, not_null, preexisting>>

\* str(x) of a type object, as _records applies it.
PyStr(x) == Str(<<"<class '", x.val[1], "'>">>)

XSCHEMA_SANITIZE == TRUE

\* The loop of _records over the pairs of record_schema from the i-th on:
\* the type check against the mapping as it is by then, and update_schema
\* with the whole record_schema after each pair.
RECURSIVE SanitizeItemsFrom(_, _, _, _, _)
SanitizeItemsFrom(items, i, record_schema, m, num_to_str) ==
    IF i > Len(items)
    THEN [m |-> m, raised |-> FALSE, col |-> "", obj |-> NoneObj,
          num_to_str |-> num_to_str]
    ELSE LET k == items[i][1]
             v == items[i][2]
             differs == k \in DOMAIN m.type_ /\ v # m.type_[k]
             widened == differs /\ m.type_[k] = TypeObj("str")
                        /\ v \in {TypeObj("int"), TypeObj("float")}
         IN IF differs /\ ~widened
            THEN [m |-> m, raised |-> TRUE, col |-> k, obj |-> v,
                  num_to_str |-> num_to_str]
            ELSE SanitizeItemsFrom(items, i + 1, record_schema,
                     MappingUpdate(m, record_schema),
                     IF widened THEN num_to_str \cup {k} ELSE num_to_str)

\* The record _records yields: the types of the fields, the ones in
\* num_to_str rendered with str().
Sanitized(record, num_to_str) ==
    LET d == ParsedDict(record, "type")
    IN [k \in DOMAIN d |-> IF k \in num_to_str THEN PyStr(d[k]) ELSE d[k]]

\* list(_records()) over the records from the i-th on; s is what the loop
\* over the pairs of the i-th record left.
RECURSIVE SanitizeRecordsFrom(_, _, _, _)
RECURSIVE SanitizeRecordsNext(_, _, _, _)
SanitizeRecordsNext(records, i, acc, s) ==
    IF s.raised
    THEN [m |-> s.m, result |-> "NonUniformType", col |-> s.col,
          obj |-> s.obj, returned |-> acc]
    ELSE SanitizeRecordsFrom(records, i + 1, s.m,
             Append(acc, Sanitized(records[i], s.num_to_str)))

SanitizeRecordsFrom(records, i, m, acc) ==
    IF i > Len(records)
    THEN [m |-> m, result |-> "ok", col |-> "", obj |-> NoneObj,
          returned |-> acc]
    ELSE SanitizeRecordsNext(records, i, acc,
             SanitizeItemsFrom(parse_record(records[i], "type"), 1,
                               ParsedDict(records[i], "type"), m, {}))

\* The end of _sanitize_multiple: r is the outcome of its refresh, s of
\* list(_records()).
SanitizeOutcome(records, r, s) ==
    IF ~XSCHEMA_SANITIZE
    THEN /\ last' = [Outcome("_sanitize_multiple", "ok", FALSE,
                             "", NoneObj, {})
                     EXCEPT !.returned = records]
         /\ UNCHANGED <<storage, type_, not_null, preexisting>>
    ELSE IF r.result # "ok"
    THEN /\ last' = Outcome("_sanitize_multiple", r.result, FALSE,
                            r.col, r.obj, r.missing)
         /\ UNCHANGED <<storage, type_, not_null, preexisting>>
    ELSE /\ type_' = s.m.type_
         /\ not_null' = s.m.not_null
         /\ preexisting' = s.m.preexisting
         /\ last' = [Outcome("_sanitize_multiple", s.result, FALSE,
                             s.col, s.obj, {})
                     EXCEPT !.returned = IF s.result = "ok"
                                         THEN s.returned ELSE NoneObj]
         /\ UNCHANGED storage

\* XSchemaTable._sanitize_multiple(records): a refresh, whose exception
\* ends the call, then the records of _records; no type of the mapping is
\* a list, so the assertion on the snapshot passes.
SanitizeMultiple(records) ==
    SanitizeOutcome(records, refresh(storage, type_, not_null),
                    SanitizeRecordsFrom(records, 1, Mapping, << >>))

\* XSchemaTable.update_schema(schema_dict)
UpdateSchema(schema_dict) ==
    LET m == MappingUpdate(Mapping, schema_dict)
    IN /\ type_' = m.type_
       /\ not_null' = m.not_null
       /\ preexisting' = m.preexisting
       /\ last' = Outcome("update_schema", "ok", FALSE,
                          "", NoneObj, {})
       /\ UNCHANGED storage

\* XSchemaTable.schema = schema_dict (the setter)
SetSchema(schema_dict) ==
    LET m == MappingUpdate(EmptyMapping, schema_dict)
    IN /\ type_' = m.type_
       /\ not_null' = m.not_null
       /\ preexisting' = m.preexisting
       /\ last' = Outcome("set_schema", "ok", FALSE,
                          "", NoneObj, {})
       /\ UNCHANGED storage

\* XSchemaTable(...): an empty mapping over an empty table, refreshed.
Init ==
    /\ storage = <<>>
    /\ type_ = EmptyMapping.type_
    /\ not_null = EmptyMapping.not_null
    /\ preexisting = EmptyMapping.preexisting
    /\ last = Outcome("init", "ok", FALSE, "", NoneObj, {})

Next ==
    \/ \E row \in WriteRows : Insert(row, FALSE)
    \/ \E row \in KeyedRows : InsertIgnore(row, {"id"}, FALSE)
    \/ \E rows \in WriteBatches : InsertMany(rows, FALSE)
    \/ \E row \in KeyedRows : Update(row, {"id"}, FALSE)
    \/ \E row \in KeyedRows : Upsert(row, {"id"}, FALSE)
    \/ \E filter \in WriteFilters : Delete(filter, FALSE)
    \/ Refresh
    \/ \E sd \in UniqueDicts : UpdateSchema(sd)
    \/ \E sd \in UniqueDicts : SetSchema(sd)

Spec == Init /\ [][Next]_vars

\* The table under declared types and not-null columns.
NextScan ==
    \/ \E sd \in TypedDicts : SetSchema(sd)
    \/ \E row \in ScanRows : Insert(row, FALSE)
    \/ \E filter \in ScanFilters, fails \in BOOLEAN : Delete(filter, fails)
    \/ Refresh
    \/ \E refresh_ \in BOOLEAN : GetSchema(refresh_)

SpecScan == Init /\ [][NextScan]_vars

\* Declarations of uniqueness and of not-null for id, and of uniqueness
\* for both columns.
FailDicts ==
    [id : {Constraint(NoneObj, n, u) : n, u \in BOOLEAN}]
    \cup [id : {Unique}, email : {Unique}]

\* Rows and filters with one value for email.
FailRows == {r \in WriteRows : "email" \in DOMAIN r => r.email = Str(Text1)}

FailKeyedRows == FailRows \cap KeyedRows

FailFilters == {f \in WriteFilters : f \in FailRows \cup {<< >>}}

\* The table over a storage collaborator whose writes and deletes may raise.
NextFail ==
    \/ \E sd \in FailDicts : SetSchema(sd)
    \/ \E row \in FailRows, fails \in BOOLEAN : Insert(row, fails)
    \/ \E row \in FailKeyedRows, fails \in BOOLEAN :
            Update(row, {"id"}, fails)
    \/ \E row \in FailKeyedRows, fails \in BOOLEAN :
            Upsert(row, {"id"}, fails)
    \/ \E filter \in FailFilters, fails \in BOOLEAN : Delete(filter, fails)
    \/ Refresh

SpecFail == Init /\ [][NextFail]_vars

\* The bulk-import path: an integer, a float and a string for id, an
\* integer for email; a type declared for id, or str for both columns.
SanitizeValues ==
    [id |-> {Str(Text1), Str(TextFloat), Str(TextY)},
     email |-> {Str(Text1)}]

SanitizeRows == RecordsOver(SanitizeValues) \ {<< >>}

SanitizeBatches == UNION {[1..n -> SanitizeRows] : n \in 1..MaxBatch}

StoredRows == {r \in SanitizeRows : DOMAIN r = {"id"}}

SanitizeDicts ==
    [id : {Constraint(TypeObj(t), FALSE, FALSE) : t \in {"int", "str"}}]
    \cup [id : {Constraint(TypeObj("str"), FALSE, FALSE)},
          email : {Constraint(TypeObj("str"), FALSE, FALSE)}]

NextSanitize ==
    \/ \E sd \in SanitizeDicts : SetSchema(sd)
    \/ \E row \in StoredRows : Insert(row, FALSE)
    \/ \E records \in SanitizeBatches : SanitizeMultiple(records)

SpecSanitize == Init /\ [][NextSanitize]_vars

\* ------------------------------------------------------------------ claims
WriteOps == {"insert", "insert_ignore", "insert_many", "update", "upsert"}

\* The record as the null check and the storage see it: column -> value.
RecordOf(row) == ParsedDict(row, "record")

\* The columns a record carries a value for.
Carried(row) == DOMAIN RecordOf(row)

\* The classified values the records hold in column c.
ColumnValues(records, c) ==
    {RecordOf(records[i])[c] :
        i \in {j \in 1..Len(records) : c \in Carried(records[j])}}

\* The object _update_uniqueness looks up in the seen-set of column c.
SeenKey(row, c) == ParsedDict(row, "type")[c]

SeenSetsMatchStorage ==
    \A c \in DOMAIN preexisting : preexisting[c] = ColumnValues(storage, c)

\* C1: every write and delete keeps each seen-set equal to the set of
\* classified values the stored records hold in its column.
C1_SeenSetsKeptInSync ==
    [][(SeenSetsMatchStorage /\ last'.op \in WriteOps \cup {"delete"})
        => SeenSetsMatchStorage']_vars

\* C2: right after a write carrying value v in a tracked column c was
\* accepted, every write carrying v in c is rejected before it reaches
\* storage, and the seen-set of c holds v.
C2_AcceptedValueRejectedLater ==
    [][\A c \in DOMAIN preexisting :
        \A row \in {r \in WriteRows : c \in Carried(r)} :
            (Insert(row, FALSE) /\ last'.result = "ok")
            => \A later \in {r \in WriteRows : c \in Carried(r)} :
                   RecordOf(later)[c] = RecordOf(row)[c]
                   => LET u == update_uniqueness(later, preexisting')
                      IN /\ u.raised
                         /\ RecordOf(row)[c] \in u.pre[c]]_vars

\* C3: after a first insert into an empty table was accepted, a second
\* insert whose value for every tracked column differs from every value
\* accepted for that column is not rejected with uniqueness-violation (id
\* "1" and then id "2" are both accepted).
C3_NewValueAccepted ==
    [][\A row \in WriteRows :
        (/\ storage = <<>>
         /\ \A c \in DOMAIN preexisting : preexisting[c] = {}
         /\ Insert(row, FALSE)
         /\ last'.result = "ok")
        => \A second \in WriteRows :
               (\A c \in DOMAIN preexisting \cap Carried(second) :
                    RecordOf(second)[c] \notin ColumnValues(storage', c))
               => ~update_uniqueness(second, preexisting').raised]_vars

\* A row of the batch carries, in a tracked column, the value of an earlier
\* row of the batch, or what the seen-set of the column already holds.
HasDuplicate(rows) ==
    \E j \in 1..Len(rows) :
        \E c \in DOMAIN preexisting \cap Carried(rows[j]) :
            \/ \E i \in 1..(j - 1) :
                   /\ c \in Carried(rows[i])
                   /\ RecordOf(rows[i])[c] = RecordOf(rows[j])[c]
            \/ RecordOf(rows[j])[c] \in preexisting[c]
            \/ SeenKey(rows[j], c) \in preexisting[c]

\* C4: a bulk insert with a duplicate in a tracked column, within the batch
\* or against the seen-set, is rejected with uniqueness-violation and none
\* of its rows reaches storage.  (Stated by its contrapositive: a bulk
\* insert that ends otherwise had no such duplicate.)
C4_BulkInsertRejectsDuplicates ==
    [][\A rows \in WriteBatches :
        (/\ last'.op = "insert_many"
         /\ ~(/\ last'.result = "NotUnique"
              /\ ~last'.reached
              /\ storage' = storage)
         /\ InsertMany(rows, FALSE))
        => ~HasDuplicate(rows)]_vars

\* A bulk insert was rejected for a value of a column in which no stored
\* record holds anything: the duplicate was a row of a batch.
C4_Witness ==
    /\ last.op = "insert_many"
    /\ last.result = "NotUnique"
    /\ ~last.reached
    /\ last.col \in DOMAIN preexisting
    /\ last.obj \in preexisting[last.col]
    /\ ColumnValues(storage, last.col) = {}

\* C5: a write rejected with uniqueness-violation leaves every seen-set as
\* it was before the write.
C5_RejectedWriteLeavesSeenSets ==
    [][(last'.op \in WriteOps /\ last'.result = "NotUnique")
        => preexisting' = preexisting]_vars

\* C6: after a delete that found and removed every stored record holding v
\* in a tracked column, an insert carrying v in that column (and nothing
\* stored in its other tracked columns) is not rejected with
\* uniqueness-violation.
C6_InsertAfterDeleteAccepted ==
    [][\A f \in WriteFilters : \A c \in DOMAIN f \cap DOMAIN preexisting :
        (/\ Delete(f, FALSE)
         /\ last'.result = "ok"
         /\ last'.matched > 0
         /\ Parsed[f[c]] \notin ColumnValues(storage', c))
        => \A row \in WriteRows :
               (/\ c \in Carried(row)
                /\ RecordOf(row)[c] = Parsed[f[c]]
                /\ \A d \in DOMAIN preexisting \cap Carried(row) :
                       RecordOf(row)[d] \notin ColumnValues(storage', d))
               => ~update_uniqueness(row, preexisting').raised]_vars

\* C7: an insert of a record lacking a not-null column is rejected with
\* null-violation naming the column, and storage is left as it was.
C7_InsertChecksNotNull ==
    [][\A row \in ScanRows :
        (Insert(row, FALSE) /\ not_null \ Carried(row) # {})
        => /\ last'.result = "NotNull"
           /\ not_null \ Carried(row) \subseteq last'.missing
           /\ storage' = storage]_vars

\* A field of the record has a type that is not the column's established
\* type, and is not an int or a float in a str column.
Conflicts(row) ==
    \E c \in DOMAIN type_ \cap Carried(row) :
        /\ SeenKey(row, c) # type_[c]
        /\ ~(type_[c] = TypeObj("str")
             /\ SeenKey(row, c) \in {TypeObj("int"), TypeObj("float")})

\* C8: an insert of a record with a field of a conflicting type is rejected
\* with type-conflict and storage is left as it was; an insert whose fields
\* conflict with no established type is accepted.
C8_InsertChecksTypes ==
    [][\A row \in ScanRows :
        Insert(row, FALSE)
        => IF Conflicts(row)
           THEN last'.result = "NonUniformType" /\ storage' = storage
           ELSE last'.result = "ok"]_vars

\* A full refresh has just run, on its own or at the end of a delete.
RefreshRan == last.op \in {"refresh", "delete"}

\* The not-null columns the record lacks.
Lacking(row) == not_null \ Carried(row)

\* The place in scan order of the first stored record with a field of a
\* conflicting type, and of the first one lacking a not-null column; 0 when
\* there is none.
FirstConflict ==
    LET I == {i \in 1..Len(storage) : Conflicts(storage[i])}
    IN IF I = {} THEN 0 ELSE CHOOSE i \in I : \A j \in I : i <= j

FirstLacking ==
    LET I == {i \in 1..Len(storage) : Lacking(storage[i]) # {}}
    IN IF I = {} THEN 0 ELSE CHOOSE i \in I : \A j \in I : i <= j

\* A type-conflict is never raised for an int or a float in a str column.
NoConflictForWidened ==
    last.result = "NonUniformType"
    => ~(/\ type_[last.col] = TypeObj("str")
         /\ last.obj \in {TypeObj("int"), TypeObj("float")})

\* C9 as stated: a refresh never raises type-conflict for an int or a float
\* in a str column, and always raises type-conflict when a stored value has
\* a conflicting type.
C9_ConflictAlwaysRaised ==
    RefreshRan
    => /\ NoConflictForWidened
       /\ FirstConflict # 0 => last.result = "NonUniformType"

\* C9 as amended: a refresh never raises type-conflict for an int or a float
\* in a str column, and raises type-conflict when a stored value has a
\* conflicting type unless an earlier record lacks a not-null column.
C9_ConflictRaisedUnlessNullFirst ==
    RefreshRan
    => /\ NoConflictForWidened
       /\ (FirstConflict # 0
           /\ (FirstLacking = 0 \/ FirstConflict <= FirstLacking))
          => last.result = "NonUniformType"

\* A refresh raised type-conflict for a str in an int column although a
\* stored record, not an earlier one, lacks a not-null column.
C9_Witness ==
    /\ last.op = "refresh"
    /\ last.result = "NonUniformType"
    /\ type_[last.col] = TypeObj("int")
    /\ last.obj = TypeObj("str")
    /\ FirstLacking # 0

\* C10 as stated: a refresh over storage with a record lacking a not-null
\* column fails with null-violation naming exactly the not-null columns the
\* first such record lacks.
C10_NullViolationAlwaysRaised ==
    (RefreshRan /\ FirstLacking # 0)
    => /\ last.result = "NotNull"
       /\ last.missing = Lacking(storage[FirstLacking])

\* C10 as amended: it does so unless a record up to and including the first
\* such record has a field of a conflicting type.
C10_NullViolationUnlessConflictFirst ==
    (/\ RefreshRan
     /\ FirstLacking # 0
     /\ (FirstConflict = 0 \/ FirstLacking < FirstConflict))
    => /\ last.result = "NotNull"
       /\ last.missing = Lacking(storage[FirstLacking])

\* A refresh named both not-null columns, which the first record lacks,
\* while the second record has a field of a conflicting type.
C10_Witness ==
    /\ last.op = "refresh"
    /\ last.result = "NotNull"
    /\ Cardinality(last.missing) = 2
    /\ FirstLacking = 1
    /\ FirstConflict = 2

\* C11: every delete removes the matching records' entries from the
\* seen-sets, then calls the collaborator's delete, then runs a full
\* refresh, in that order; the refresh runs whether the collaborator's
\* delete returned or raised, so an exception of the refresh over the
\* storage the delete left is what the delete ends with.
C11_DeleteStepOrder ==
    [][\A filter \in FailFilters, fails \in BOOLEAN :
        Delete(filter, fails) =>
            LET matched == find(storage, filter)
                r == refresh(storage', type_, not_null)
            IN /\ Len(last'.calls) = Len(matched) + 3
               /\ last'.calls[1] = "find"
               /\ \A i \in 2..(Len(matched) + 1) :
                      last'.calls[i] = "_remove_uniqueness"
               /\ last'.calls[Len(matched) + 2] = "Table.delete"
               /\ last'.calls[Len(matched) + 3] = "refresh"
               /\ \A c \in DOMAIN preexisting :
                      preexisting'[c] =
                          preexisting[c] \ {SeenKey(matched[i], c) :
                              i \in {j \in 1..Len(matched) :
                                         c \in Carried(matched[j])}}
               /\ (r.result # "ok" => last'.result = r.result)]_vars

\* A delete whose filter found a record of a column under uniqueness
\* tracking, whose storage call raised (the record is still stored) and
\* whose refresh ran all the same and raised the null violation.
C11_Witness ==
    /\ last.op = "delete"
    /\ last.matched > 0
    /\ find(storage, last.filter) # << >>
    /\ DOMAIN preexisting # {}
    /\ last.result = "NotNull"
    /\ last.calls[Len(last.calls)] = "refresh"

\* C12: a delete whose storage call raised ends with that storage error,
\* whatever the refresh of the finally clause finds in the storage.
C12_StorageErrorSurfaced ==
    [][\A filter \in ScanFilters :
        Delete(filter, TRUE) => last'.result = "StorageError"]_vars

ReportOp == "get_schema(refresh=True)"

\* C13: a full refresh in report mode that comes right after another one,
\* with no other call in between, returns the same snapshot, or fails with
\* the same exception naming the same column, type and missing columns.
C13_ReportRefreshIdempotent ==
    [][(last'.op = ReportOp /\ last'.repeated) =>
          /\ last'.result = last.result
          /\ last'.returned = last.returned
          /\ last'.col = last.col
          /\ last'.obj = last.obj
          /\ last'.missing = last.missing]_vars

\* A second report in a row that returned a snapshot with a column of two
\* observed types.
C13_Witness ==
    /\ last.op = ReportOp
    /\ last.repeated
    /\ last.result = "ok"
    /\ \E k \in DOMAIN last.returned : last.returned[k].type_.form = "list"

\* The distinct classified types of column k among the records from the
\* i-th on, in first-observed order, after those of acc.
RECURSIVE ObservedFrom(_, _, _, _)
ObservedFrom(records, i, k, acc) ==
    IF i > Len(records) THEN acc
    ELSE LET d == ParsedDict(records[i], "type")
         IN ObservedFrom(records, i + 1, k,
                IF k \in DOMAIN d /\ \A j \in 1..Len(acc) : acc[j] # d[k]
                THEN Append(acc, d[k])
                ELSE acc)

Observed(records, k) == ObservedFrom(records, 1, k, << >>)

\* C16: a successful full refresh in report mode returns, for each column
\* some stored record carries, the distinct classified types observed for
\* it in first-observed order, whatever the established type and the
\* widening: a bare tag if exactly one type was observed, a list otherwise.
C16_ReportShowsObservedTypes ==
    (last.op = ReportOp /\ last.result = "ok") =>
        \A k \in Cols :
            LET obs == Observed(storage, k)
            IN Len(obs) >= 1 =>
                  /\ k \in DOMAIN last.returned
                  /\ last.returned[k].type_ =
                         IF Len(obs) = 1 THEN Tag(obs[1]) ELSE TagList(obs)

\* C19: a full refresh, in report mode or not, successful or raising,
\* leaves the established types, the not-null set, every seen-set and the
\* stored records as they were.
C19_RefreshLeavesMappingAndStorage ==
    [][last'.op \in {"refresh", ReportOp} =>
          UNCHANGED <<storage, type_, not_null, preexisting>>]_vars

\* A report that returned two observed types for a column the mapping
\* holds no type for.
C19_Witness ==
    /\ last.op = ReportOp
    /\ ~last.repeated
    /\ last.result = "ok"
    /\ \E k \in DOMAIN last.returned :
          /\ last.returned[k].type_.form = "list"
          /\ k \notin DOMAIN type_

\* Some stored record holds the seen-set entry x in column c.
Persisted(records, c, x) ==
    \E i \in 1..Len(records) :
        c \in Carried(records[i]) /\ SeenKey(records[i], c) = x

\* C14: when the storage call of a write raised after the uniqueness check
\* passed and a full refresh then succeeds, the seen-sets no longer hold
\* what that write added and no stored record holds, and a write carrying
\* it is accepted.
C14_RefreshDropsUnpersisted ==
    [][(/\ last.op \in WriteOps
        /\ last.result = "StorageError"
        /\ last'.op = "refresh"
        /\ last'.result = "ok") =>
          \A p \in last.added :
              ~Persisted(storage', p[1], p[2]) =>
                  /\ p[2] \notin preexisting'[p[1]]
                  /\ \A row \in FailRows :
                         (Carried(row) = {p[1]} /\ SeenKey(row, p[1]) = p[2])
                             => ~update_uniqueness(row, preexisting').raised]_vars

\* The single-row writes of a row whose storage call raises.
FailedWrite(row) ==
    \/ Insert(row, TRUE)
    \/ "id" \in DOMAIN row /\ Update(row, {"id"}, TRUE)
    \/ "id" \in DOMAIN row /\ Upsert(row, {"id"}, TRUE)

\* C15: when the storage call of an insert, update or upsert raises after
\* the uniqueness check passed, the value the row carries for a column
\* under uniqueness tracking is in that column's seen-set, and the same
\* write made right after it is rejected with the uniqueness violation.
C15_SeenSetUpdatedBeforeWrite ==
    [][\A row \in FailRows :
        (FailedWrite(row) /\ last'.result = "StorageError") =>
            \A c \in DOMAIN preexisting \cap Carried(row) :
                /\ RecordOf(row)[c] \in preexisting'[c]
                /\ update_uniqueness(row, preexisting').raised]_vars

\* C20: an update or upsert whose row carries, for a column under
\* uniqueness tracking, a value whose entry is already in that column's
\* seen-set is rejected with the uniqueness violation and does not reach
\* the storage, also when the only stored record holding that value is the
\* record the keys select.
C20_UpdateRejectsSeenValue ==
    [][\A row \in KeyedRows :
        (/\ Update(row, {"id"}, FALSE) \/ Upsert(row, {"id"}, FALSE)
         /\ \E c \in DOMAIN preexisting \cap Carried(row) :
                SeenKey(row, c) \in preexisting[c]) =>
            /\ last'.result = "NotUnique"
            /\ ~last'.reached
            /\ storage' = storage]_vars

\* An update rejected for its key column id while exactly one stored record
\* holds that id: the record the update selects.
C20_Witness ==
    /\ last.op = "update"
    /\ last.result = "NotUnique"
    /\ last.col = "id"
    /\ Cardinality({i \in 1..Len(storage) :
                       /\ "id" \in Carried(storage[i])
                       /\ SeenKey(storage[i], "id") = last.obj}) = 1

\* The records the sanitization is to return for a batch under the types
\* established when it starts: the string rendering of an integer or float
\* of a str column, the classified value of every other field.
ExpectedSanitized(records, types) ==
    [i \in 1..Len(records) |->
        [k \in Carried(records[i]) |->
            IF /\ k \in DOMAIN types
               /\ types[k] = TypeObj("str")
               /\ SeenKey(records[i], k) \in {TypeObj("int"), TypeObj("float")}
            THEN Str(RecordOf(records[i])[k].val)
            ELSE RecordOf(records[i])[k]]]

\* C17: with sanitization enabled, a sanitize-batch that succeeds returns
\* one record per input record, in input order, whose integer and float
\* fields of str columns hold the value's string rendering and whose other
\* fields hold their classified value.
C17_SanitizeReturnsValues ==
    [][\A records \in SanitizeBatches :
        (SanitizeMultiple(records) /\ last'.result = "ok") =>
            last'.returned = ExpectedSanitized(records, type_)]_vars

\* C18: for a column established as str when sanitize-batch starts, a batch
\* of records carrying that column alone, with values that classify as
\* int, float or str in any order, is accepted, and the column's type is
\* still str when sanitize-batch returns.
C18_SanitizeKeepsStrColumn ==
    [][\A records \in SanitizeBatches, c \in Cols :
        (/\ SanitizeMultiple(records)
         /\ c \in DOMAIN type_
         /\ type_[c] = TypeObj("str")
         /\ refresh(storage, type_, not_null).result = "ok"
         /\ \A i \in 1..Len(records) :
                /\ DOMAIN records[i] = {c}
                /\ SeenKey(records[i], c) \in
                       {TypeObj("int"), TypeObj("float"), TypeObj("str")}) =>
            /\ last'.result = "ok"
            /\ c \in DOMAIN type_'
            /\ type_'[c] = TypeObj("str")]_vars

====
